---- MODULE Spec2Model ----
(***************************************************************************)
(* Model of the GymApp session store (AuthContext.tsx: AuthProvider) and   *)
(* of the service facade (services/supabase.ts) over the remote gateway.   *)
(*                                                                         *)
(* Every await of the source is a suspension point: the request is a       *)
(* record in flight (boot, inflight, op, fcall) and the continuation is    *)
(* a separate action, so that other callbacks interleave as they do in     *)
(* the single-threaded event loop.                                         *)
(***************************************************************************)
EXTENDS Integers, Sequences, FiniteSets, TLC

\* ------------------------------------------------------------- bounds
\* Rows the workouts table can hold.
MaxWorkouts == 1
\* Session-change notifications queued for delivery to the subscriber.
MaxEvents == 1
\* fetchProfile requests of the callback and of refreshProfile in flight at
\* the same time (getInitialSession's own fetch comes on top).
MaxInflight == 1
\* Calls of a list screen's fetch function in flight at the same time.
MaxFetches == 2
\* Characters of a search term.
MaxTermLen == 2
\* performSearch calls in flight at the same time.
MaxSearches == 2
\* How far the followers count a profile screen shows can go.
MaxCount == 2

\* ------------------------------------------------------------- values
Users == {"u1", "u2"}
Names == {"ann", "bob"}
Null == [null |-> TRUE]
NoError == "null"

UserOf(u) == [id |-> u]
\* The credential: an opaque token bound to the identity it carries.
SessionOf(u) == [user |-> UserOf(u), access_token |-> <<"token", u>>]
Sessions == {SessionOf(u) : u \in Users}
SessionOrNull == Sessions \cup {Null}

\* The handles (profiles.username) written in the model, and the column's null.
Handles == {"bee", "Bee"}
NoHandle == "none"

\* A row of the profiles table; updated_at is computed by the server.
InitialRow(u) ==
  [id |-> u, full_name |-> "ann", username |-> NoHandle,
   updated_at |-> "created"]

\* Partial<Profile> passed to updateProfile.
Partials == [full_name : {"bob"}]

\* Partial<Profile> that sets the handle.
HandlePartials == [username : Handles]

Outcomes == {"ok", "err", "throw"}

RemoveAt(s, i) == [j \in 1..(Len(s) - 1) |-> IF j < i THEN s[j] ELSE s[j + 1]]

VARIABLES
  user,        \* AuthProvider state: User | null            (the identity)
  session,     \* AuthProvider state: Session | null         (the credential)
  profile,     \* AuthProvider state: Profile | null
  loading,     \* AuthProvider state: boolean
  boot,        \* getInitialSession: its position and the response it awaits
  events,      \* session-change notifications not yet delivered
  inflight,    \* fetchProfile calls awaiting profileService.getProfile
  op,          \* the last signIn / signUp / signOut / updateProfile call:
               \* in progress, or returned with its result
  gwSession,   \* gateway: the current session of this client
  gwProfiles,  \* gateway: the profiles table
  follows,     \* gateway: the follows table, rows <<follower_id, following_id>>
  likes,       \* gateway: the workout_likes table, rows <<user_id, workout_id>>
  workouts,    \* gateway: the workouts table
  fcall        \* the facade call in progress, or the last one with its result

authVars == <<user, session, profile, loading, boot, events, inflight, op,
              gwSession, gwProfiles>>

facadeVars == <<follows, likes, workouts, fcall>>

\* What the facade's calls leave alone.
storeVars == <<user, session, profile, loading, boot, events, inflight, op,
               gwProfiles>>

\* ------------------------------------------------------ AuthProvider
\* The four useState cells as one record, for the handlers' pure parts.
Store == [user |-> user, session |-> session, profile |-> profile,
          loading |-> loading]

SetStore(st) ==
  /\ user' = st.user
  /\ session' = st.session
  /\ profile' = st.profile
  /\ loading' = st.loading

\* No call of the store is awaiting the gateway.
Idle == op.stage = "returned"

Returned(kind, threw, error) ==
  [kind |-> kind, stage |-> "returned", arg |-> Null, data |-> Null,
   out |-> IF threw THEN "throw" ELSE "ok", error |-> error]

Sent(kind, arg, data) ==
  [kind |-> kind, stage |-> "sent", arg |-> arg, data |-> data, out |-> "ok",
   error |-> NoError]

\* useState initial values and the mount effect: getInitialSession() has been
\* called and awaits authService.getCurrentSession(); the subscription stands.
AuthInit ==
  /\ user = Null
  /\ session = Null
  /\ profile = Null
  /\ loading = TRUE
  /\ boot = [pc |-> "getSession", resp |-> Null]
  /\ events = <<>>
  /\ inflight = <<>>
  /\ op = Returned("none", FALSE, NoError)
  /\ gwSession \in SessionOrNull
  /\ gwProfiles = [u \in Users |-> InitialRow(u)]

\* fetchProfile(userId) up to its await: the getProfile request is in flight.
StartFetch(owner, uid) == Append(inflight, [owner |-> owner, uid |-> uid])

\* fetchProfile after its await: setProfile(data) unless the request returned
\* an error or raised (both are logged and swallowed).
FetchProfileApply(st, out, data) ==
  IF out = "ok" THEN [st EXCEPT !.profile = data] ELSE st

\* What runs after `await fetchProfile(...)` in getInitialSession and in the
\* onAuthStateChange callback; refreshProfile does nothing more.
AfterFetch(st, owner) ==
  IF owner \in {"boot", "event"} THEN [st EXCEPT !.loading = FALSE] ELSE st

\* authService.getCurrentSession() answers: {session, error}, or it rejects
\* and getInitialSession ends there with it.
GetCurrentSessionResolve(out) ==
  /\ boot.pc = "getSession"
  /\ boot' = IF out = "throw"
               THEN [pc |-> "ended", resp |-> Null]
               ELSE [pc |-> "resume",
                     resp |-> IF out = "ok" THEN gwSession ELSE Null]
  /\ UNCHANGED <<user, session, profile, loading, events, inflight, op,
                 gwSession, gwProfiles>>

\* getInitialSession after its first await.
GetInitialSessionResume ==
  /\ boot.pc = "resume"
  /\ IF boot.resp # Null
       THEN /\ session' = boot.resp
            /\ user' = boot.resp.user
            /\ boot' = [pc |-> "fetch", resp |-> boot.resp]
            /\ UNCHANGED loading
       ELSE /\ loading' = FALSE
            /\ boot' = [pc |-> "ended", resp |-> Null]
            /\ UNCHANGED <<user, session>>
  /\ UNCHANGED <<profile, events, inflight, op, gwSession, gwProfiles>>

\* getInitialSession's fetchProfile(session.user.id) is answered; then
\* setLoading(false).
GetInitialSessionFetched(out) ==
  /\ boot.pc = "fetch"
  /\ SetStore(AfterFetch(FetchProfileApply(Store, out,
                                           gwProfiles[boot.resp.user.id]),
                         "boot"))
  /\ boot' = [pc |-> "ended", resp |-> Null]
  /\ UNCHANGED <<events, inflight, op, gwSession, gwProfiles>>

\* profileService.getProfile(uid) answers request i (in any order) and the
\* awaiting fetchProfile, then its caller, run on.
FetchProfileResolve(i, out) ==
  /\ i \in 1..Len(inflight)
  /\ SetStore(AfterFetch(FetchProfileApply(Store, out,
                                           gwProfiles[inflight[i].uid]),
                         inflight[i].owner))
  /\ inflight' = RemoveAt(inflight, i)
  /\ UNCHANGED <<boot, events, op, gwSession, gwProfiles>>

\* Mutant: the branch for an event without a session forgets setProfile(null).
OnAuthStateChangeSync_KeepsProfile(st, s) ==
  IF s # Null
    THEN [st EXCEPT !.session = s, !.user = s.user]
    ELSE [st EXCEPT !.session = Null, !.user = Null, !.loading = FALSE]

\* Mutant: the callback runs setSession(session) and forgets setUser.
OnAuthStateChangeSync_SessionOnly(st, s) ==
  IF s # Null
    THEN [st EXCEPT !.session = s]
    ELSE [st EXCEPT !.session = Null, !.profile = Null, !.loading = FALSE]

\* The synchronous part of the onAuthStateChange callback.
OnAuthStateChangeSync(st, s) ==
  IF s # Null
    THEN [st EXCEPT !.session = s, !.user = s.user]
    ELSE [st EXCEPT !.session = Null, !.user = Null, !.profile = Null,
                    !.loading = FALSE]

\* The subscription delivers the next notification to the callback.
OnAuthStateChange ==
  /\ events # <<>>
  /\ Head(events) # Null => Len(inflight) < MaxInflight
  /\ SetStore(OnAuthStateChangeSync(Store, Head(events)))
  /\ inflight' = IF Head(events) # Null
                   THEN StartFetch("event", Head(events).user.id)
                   ELSE inflight
  /\ events' = Tail(events)
  /\ UNCHANGED <<boot, op, gwSession, gwProfiles>>

\* The gateway's auth subsystem changes the session on its own (token
\* refresh, expiry, sign-in or sign-out elsewhere) and notifies.
GwSessionChange(s) ==
  /\ Len(events) < MaxEvents
  /\ s # gwSession
  /\ gwSession' = s
  /\ events' = Append(events, s)
  /\ UNCHANGED <<user, session, profile, loading, boot, inflight, op,
                 gwProfiles>>

\* Mutant: the call resets the profile itself before asking the gateway.
SignCall_ResetsProfile(kind, u) ==
  /\ op.stage = "returned"
  /\ loading' = TRUE
  /\ profile' = Null
  /\ op' = [kind |-> kind, stage |-> "sent", arg |-> UserOf(u), data |-> Null,
            out |-> "ok", error |-> NoError]
  /\ UNCHANGED <<user, session, boot, events, inflight, gwSession, gwProfiles>>

\* signIn / signUp up to the await.
SignCall(kind, u) ==
  /\ Idle
  /\ loading' = TRUE
  /\ op' = Sent(kind, UserOf(u), Null)
  /\ UNCHANGED <<user, session, profile, boot, events, inflight, gwSession,
                 gwProfiles>>

signIn(u) == SignCall("signIn", u)

signUp(u) == SignCall("signUp", u)

\* signOut up to the await.
signOut ==
  /\ Idle
  /\ loading' = TRUE
  /\ op' = Sent("signOut", Null, Null)
  /\ UNCHANGED <<user, session, profile, boot, events, inflight, gwSession,
                 gwProfiles>>

\* Mutant: without a user the update is sent for a remembered id instead of
\* being rejected.
updateProfile_NoGuard(updates) ==
  /\ Idle
  /\ op' = Sent("updateProfile", IF user = Null THEN UserOf("u1") ELSE user,
                updates)
  /\ UNCHANGED <<user, session, profile, loading, boot, events, inflight,
                 gwSession, gwProfiles>>

\* updateProfile(updates): the guard on `user`, then the request.
updateProfile(updates) ==
  /\ Idle
  /\ op' = IF user = Null
             THEN Returned("updateProfile", FALSE, "No user logged in")
             ELSE Sent("updateProfile", user, updates)
  /\ UNCHANGED <<user, session, profile, loading, boot, events, inflight,
                 gwSession, gwProfiles>>

\* refreshProfile(): returns at once without a user.
refreshProfile ==
  /\ user # Null
  /\ Len(inflight) < MaxInflight
  /\ inflight' = StartFetch("refresh", user.id)
  /\ UNCHANGED <<user, session, profile, loading, boot, events, op,
                 gwSession, gwProfiles>>

\* The row profiles.update(updates).eq("id", uid).select().single() returns:
\* the stored row with the sent fields, updated_at set by the server.
UpdatedRow(row, updates) ==
  [row EXCEPT !.full_name = IF "full_name" \in DOMAIN updates
                              THEN updates.full_name ELSE @,
              !.username = IF "username" \in DOMAIN updates
                             THEN updates.username ELSE @,
              !.updated_at = "updated"]

\* String.prototype.toLowerCase() on the handles.
ToLowerCase(h) == IF h = "Bee" THEN "bee" ELSE h

\* profileService.checkUsernameAvailable(username, currentUserId) answered
\* with outcome out: a row of another id with the lower-cased handle makes it
\* unavailable; `if (error) return {available: false, error}`.
checkUsernameAvailable(username, currentUserId, out) ==
  IF out # "ok"
    THEN [available |-> FALSE, error |-> "GatewayError"]
    ELSE [available |->
            ~\E u \in Users \ {currentUserId} :
               gwProfiles[u].username = ToLowerCase(username),
          error |-> NoError]

\* The error member of the gateway's answer.
ErrorOf(out) == IF out = "err" THEN "GatewayError" ELSE NoError

\* The gateway's auth subsystem serves the request of the signIn, signUp or
\* signOut in progress; a success changes the session and is notified.
GwAuthRespond(out) ==
  /\ op.stage = "sent"
  /\ op.kind \in {"signIn", "signUp", "signOut"}
  /\ op' = [op EXCEPT !.stage = "back", !.out = out, !.arg = Null,
                      !.error = ErrorOf(out)]
  /\ IF out = "ok"
       THEN /\ Len(events) < MaxEvents
            /\ gwSession' = IF op.kind = "signOut" THEN Null
                                                   ELSE SessionOf(op.arg.id)
            /\ events' = Append(events, gwSession')
       ELSE UNCHANGED <<events, gwSession>>
  /\ UNCHANGED <<user, session, profile, loading, boot, inflight, gwProfiles>>

\* The gateway serves the update of the updateProfile in progress and
\* returns the row.
GwProfileRespond(out) ==
  /\ op.stage = "sent"
  /\ op.kind = "updateProfile"
  /\ gwProfiles' = IF out = "ok"
                     THEN [gwProfiles EXCEPT ![op.arg.id] = UpdatedRow(@, op.data)]
                     ELSE gwProfiles
  /\ op' = [op EXCEPT !.stage = "back", !.out = out, !.arg = Null,
                      !.data = IF out = "ok" THEN gwProfiles'[op.arg.id] ELSE Null,
                      !.error = ErrorOf(out)]
  /\ UNCHANGED <<user, session, profile, loading, boot, events, inflight,
                 gwSession>>

\* signIn / signUp after the await; a rejected await ends the call there.
SignResume(st, out) ==
  IF out = "throw" THEN st ELSE [st EXCEPT !.loading = FALSE]

\* Mutant: the local state is cleared only when the remote sign-out succeeded.
SignOutResume_OnlyOnSuccess(st, out) ==
  IF out # "ok"
    THEN [st EXCEPT !.loading = FALSE]
    ELSE [st EXCEPT !.user = Null, !.session = Null, !.profile = Null,
                    !.loading = FALSE]

\* signOut after the await.
SignOutResume(st, out) ==
  IF out = "throw"
    THEN st
    ELSE [st EXCEPT !.user = Null, !.session = Null, !.profile = Null,
                    !.loading = FALSE]

\* Mutant: setProfile(data) without looking at the error.
UpdateProfileResume_NoErrorCheck(st, out, data) ==
  IF out = "throw" THEN st ELSE [st EXCEPT !.profile = data]

\* updateProfile after the await: if (!error && data) setProfile(data).
UpdateProfileResume(st, out, data) ==
  IF out = "ok" /\ data # Null THEN [st EXCEPT !.profile = data] ELSE st

\* The call in progress runs on after its await and returns (or rejects).
OpResume ==
  /\ op.stage = "back"
  /\ SetStore(CASE op.kind \in {"signIn", "signUp"} -> SignResume(Store, op.out)
                [] op.kind = "signOut" -> SignOutResume(Store, op.out)
                [] op.kind = "updateProfile" ->
                     UpdateProfileResume(Store, op.out, op.data))
  /\ op' = Returned(op.kind, op.out = "throw", op.error)
  /\ UNCHANGED <<boot, events, inflight, gwSession, gwProfiles>>


\* ---------------------------------------------------- service facade
\* followService, workoutService: each call first awaits
\* supabase.auth.getUser(), then sends its requests one after the other.
\* Workouts["Insert"] as the caller passes it: it may name any owner.
WorkoutInputs == [user_id : Users, is_public : BOOLEAN]

FReturned(fn, value, error) ==
  [fn |-> fn, stage |-> "returned", arg |-> Null, actor |-> Null,
   req |-> Null, value |-> value, error |-> error]

FacadeInit ==
  /\ follows = {}
  /\ likes = {}
  /\ workouts = {}
  /\ fcall = FReturned("none", Null, NoError)

\* A facade function is called: it awaits supabase.auth.getUser().
FacadeCall(fn, arg) ==
  /\ fcall.stage = "returned"
  /\ fcall' = [fn |-> fn, stage |-> "getUser", arg |-> arg, actor |-> Null,
               req |-> Null, value |-> Null, error |-> NoError]
  /\ UNCHANGED <<follows, likes, workouts, gwSession>>

followUser(followingId) == FacadeCall("followUser", followingId)

unfollowUser(followingId) == FacadeCall("unfollowUser", followingId)

isFollowing(followingId) == FacadeCall("isFollowing", followingId)

createWorkout(workout) == FacadeCall("createWorkout", workout)

toggleWorkoutLike(workoutId) == FacadeCall("toggleWorkoutLike", workoutId)

Request(table, verb, row) == [table |-> table, verb |-> verb, row |-> row]

\* Mutant: createWorkout sends the caller's row as it is.
FirstRequest_TrustsInput(fn, arg, uid) ==
  CASE fn = "followUser" -> Request("follows", "insert", <<uid, arg>>)
    [] fn = "unfollowUser" -> Request("follows", "delete", <<uid, arg>>)
    [] fn = "isFollowing" -> Request("follows", "single", <<uid, arg>>)
    [] fn = "createWorkout" -> Request("workouts", "insert", arg)
    [] fn = "toggleWorkoutLike" ->
         Request("workout_likes", "single", <<uid, arg>>)

\* The first request of each function for the user getUser() returned.
FirstRequest(fn, arg, uid) ==
  CASE fn = "followUser" -> Request("follows", "insert", <<uid, arg>>)
    [] fn = "unfollowUser" -> Request("follows", "delete", <<uid, arg>>)
    [] fn = "isFollowing" -> Request("follows", "single", <<uid, arg>>)
    [] fn = "createWorkout" ->
         Request("workouts", "insert", [arg EXCEPT !.user_id = uid])
    [] fn = "toggleWorkoutLike" ->
         Request("workout_likes", "single", <<uid, arg>>)

\* After `await supabase.auth.getUser()`: if (!user) return the error, else
\* send the first request.
AfterGetUser(c, u) ==
  IF u = Null
    THEN FReturned(c.fn, IF c.fn = "isFollowing" THEN FALSE ELSE Null,
                   "Not authenticated")
    ELSE [c EXCEPT !.stage = "request", !.actor = u,
                   !.req = FirstRequest(c.fn, c.arg, u.id)]

\* supabase.auth.getUser() answers with the current session's user, or with
\* no user when there is no session or the request fails.
GetUserResolve(out) ==
  /\ fcall.stage = "getUser"
  /\ fcall' = AfterGetUser(fcall, IF out = "ok" /\ gwSession # Null
                                    THEN gwSession.user
                                    ELSE Null)
  /\ UNCHANGED <<follows, likes, workouts, gwSession>>

Table(name) ==
  CASE name = "follows" -> follows
    [] name = "workout_likes" -> likes

\* The id the server gives a new workout.
NextWorkoutId == Cardinality(workouts) + 1

\* The gateway's answer {data, error} to a request: .single() answers
\* PGRST116 unless exactly one row matches (the pair is unique in both
\* tables); an insert of an existing pair violates the unique key.
GwAnswer(req, out) ==
  IF out # "ok"
    THEN [data |-> Null, error |-> "GatewayError"]
    ELSE CASE req.table = "workouts" ->
                [data |-> [id |-> NextWorkoutId, user_id |-> req.row.user_id,
                           is_public |-> req.row.is_public],
                 error |-> NoError]
           [] req.verb = "single" ->
                IF req.row \in Table(req.table)
                  THEN [data |-> [id |-> req.row], error |-> NoError]
                  ELSE [data |-> Null, error |-> "PGRST116"]
           [] req.verb = "insert" ->
                [data |-> Null,
                 error |-> IF req.row \in Table(req.table)
                             THEN "23505" ELSE NoError]
           [] req.verb = "delete" -> [data |-> Null, error |-> NoError]

\* The table a served request leaves behind.
GwApply(req, out, name, rows) ==
  IF out # "ok" \/ req.table # name
    THEN rows
    ELSE CASE req.verb = "insert" /\ name = "workouts" ->
                rows \cup {GwAnswer(req, out).data}
           [] req.verb = "insert" /\ name # "workouts" -> rows \cup {req.row}
           [] req.verb = "delete" -> rows \ {req.row}
           [] OTHER -> rows

\* Mutant: the error of the single-row check is returned as it is.
IsFollowingResult_RawError(resp) ==
  [value |-> resp.data # Null, error |-> resp.error]

\* isFollowing's return value: {isFollowing: !!data,
\* error: error?.code === "PGRST116" ? null : error}.
IsFollowingResult(resp) ==
  [value |-> resp.data # Null,
   error |-> IF resp.error = "PGRST116" THEN NoError ELSE resp.error]

\* The function runs on with the answer to its request: it returns, or
\* (toggleWorkoutLike after its check) sends the delete or the insert.
AfterRequest(c, resp) ==
  CASE c.fn \in {"followUser", "createWorkout"} ->
         FReturned(c.fn, resp.data, resp.error)
    [] c.fn = "unfollowUser" -> FReturned(c.fn, Null, resp.error)
    [] c.fn = "isFollowing" ->
         FReturned(c.fn, IsFollowingResult(resp).value,
                   IsFollowingResult(resp).error)
    [] c.fn = "toggleWorkoutLike" /\ c.req.verb = "single" ->
         [c EXCEPT !.req = Request("workout_likes",
                                   IF resp.data # Null THEN "delete" ELSE "insert",
                                   c.req.row)]
    [] c.fn = "toggleWorkoutLike" /\ c.req.verb = "delete" ->
         FReturned(c.fn, FALSE, resp.error)
    [] c.fn = "toggleWorkoutLike" /\ c.req.verb = "insert" ->
         FReturned(c.fn, TRUE, resp.error)

\* The gateway serves the pending request and the function runs on.
GwServe(out) ==
  /\ fcall.stage = "request"
  /\ (fcall.req.table = "workouts" /\ out = "ok")
       => Cardinality(workouts) < MaxWorkouts
  /\ follows' = GwApply(fcall.req, out, "follows", follows)
  /\ likes' = GwApply(fcall.req, out, "workout_likes", likes)
  /\ workouts' = GwApply(fcall.req, out, "workouts", workouts)
  /\ fcall' = AfterRequest(fcall, GwAnswer(fcall.req, out))
  /\ UNCHANGED gwSession

\* The session of this client changes while facade calls run.
FacadeSessionChange(s) ==
  /\ s # gwSession
  /\ gwSession' = s
  /\ UNCHANGED <<follows, likes, workouts, fcall>>


\* ------------------------------------------------------- list screens
\* HomeScreen, FollowingScreen and WorkoutsScreen share one protocol; the
\* mounted instance is one of the three.
VARIABLES
  screen,       \* which list screen this instance is
  items,        \* useState `workouts`: the list last fetched
  listLoading,  \* useState `loading` of the screen
  refreshing,   \* useState `refreshing`
  fetches,      \* calls of the screen's fetch function awaiting the gateway
  isLiking,     \* WorkoutCard state `isLiking` of the card
  likePc,       \* handleWorkoutLike: "idle", "toggle" or "refetch"
  likeUser,     \* the `user` the running handleWorkoutLike was rendered with
  likeWorkout   \* its workoutId argument

listVars == <<screen, items, listLoading, refreshing, fetches, isLiking,
              likePc, likeUser, likeWorkout>>

\* AppNavigator renders the tabs, and with them every screen, only for a
\* signed-in user once the store has loaded.
Mounted == user # Null /\ ~loading

Screens == {"Home", "Following", "Workouts"}

\* The value of `screen` when the instance is the UserProfileScreen.
ProfileView == "UserProfile"

\* Mutant: the likes are not joined.
WithLikes_NoJoin(w) ==
  [id |-> w.id, user_id |-> w.user_id, is_public |-> w.is_public,
   workout_likes |-> {}]

\* A workout selected with `*, workout_likes (user_id)`: its likes joined.
WithLikes(w) ==
  [id |-> w.id, user_id |-> w.user_id, is_public |-> w.is_public,
   workout_likes |-> {l[1] : l \in {x \in likes : x[2] = w.id}}]

getPublicWorkouts == {WithLikes(w) : w \in {x \in workouts : x.is_public}}

getUserWorkouts(userId) ==
  {WithLikes(w) : w \in {x \in workouts : x.user_id = userId}}

\* getFollowingWorkouts, first query: the following_id of the user's rows.
FollowingIds(uid) == {f[2] : f \in {x \in follows : x[1] = uid}}

\* getFollowingWorkouts, second query.
FollowingWorkouts(ids) ==
  {WithLikes(w) : w \in {x \in workouts : x.is_public /\ x.user_id \in ids}}

\* WorkoutCard: likeCount of the card of workout wid in the list shown.
likeCount(list, wid) ==
  IF \E it \in list : it.id = wid
    THEN Cardinality((CHOOSE it \in list : it.id = wid).workout_likes)
    ELSE 0

ListScreenInit(scr) ==
  /\ screen = scr
  /\ items = {}
  /\ listLoading = TRUE
  /\ refreshing = FALSE
  /\ fetches = <<>>
  /\ isLiking = FALSE
  /\ likePc = "idle"
  /\ likeUser = Null
  /\ likeWorkout = 0

\* Whether the screen's fetch function goes past its first line:
\* fetchUserWorkouts, rendered with user u, begins with `if (!user) return`.
FetchRuns(u) == ~(screen = "Workouts" /\ u = Null)

\* fetchWorkouts(isRefresh) up to its first await: `if (!isRefresh)
\* setLoading(true)` and the request is in flight.
FetchCall(isRefresh, from, u) ==
  IF FetchRuns(u)
    THEN /\ listLoading' = IF isRefresh THEN listLoading ELSE TRUE
         /\ fetches' = Append(fetches,
              [isRefresh |-> isRefresh, from |-> from,
               stage |-> IF screen = "Following" THEN "getUser" ELSE "workouts",
               uid |-> IF screen = "Workouts" THEN u.id ELSE "none",
               ids |-> {}])
    ELSE UNCHANGED <<listLoading, fetches>>

\* useFocusEffect: the screen gains focus.
Focus ==
  /\ Mounted
  /\ Len(fetches) < MaxFetches
  /\ FetchCall(FALSE, "focus", user)
  /\ UNCHANGED <<screen, items, refreshing, isLiking, likePc, likeUser,
                 likeWorkout>>

\* RefreshControl.onRefresh: the list (shown when loading is false) is pulled.
onRefresh ==
  /\ Mounted
  /\ ~listLoading
  /\ Len(fetches) < MaxFetches
  /\ refreshing' = TRUE
  /\ FetchCall(TRUE, "refresh", user)
  /\ UNCHANGED <<screen, items, isLiking, likePc, likeUser,
                 likeWorkout>>

\* The list the workouts query of the screen returns.
ListQuery(f) ==
  CASE screen = "Home" -> getPublicWorkouts
    [] screen = "Workouts" -> getUserWorkouts(f.uid)
    [] screen = "Following" -> FollowingWorkouts(f.ids)

\* One await of the fetch is answered with outcome out: the fetch goes on to
\* its next request (next), or ends with a list to set (ok) or without one.
FetchStep(f, out) ==
  CASE f.stage = "getUser" ->
         IF out = "ok" /\ gwSession # Null
           THEN [done |-> FALSE, ok |-> FALSE, data |-> {},
                 next |-> [f EXCEPT !.stage = "follows",
                                    !.uid = gwSession.user.id]]
           ELSE [done |-> TRUE, ok |-> FALSE, data |-> {}, next |-> f]
    [] f.stage = "follows" ->
         IF out # "ok"
           THEN [done |-> TRUE, ok |-> FALSE, data |-> {}, next |-> f]
           ELSE IF FollowingIds(f.uid) = {}
                  THEN [done |-> TRUE, ok |-> TRUE, data |-> {}, next |-> f]
                  ELSE [done |-> FALSE, ok |-> FALSE, data |-> {},
                        next |-> [f EXCEPT !.stage = "workouts",
                                           !.ids = FollowingIds(f.uid)]]
    [] f.stage = "workouts" ->
         [done |-> TRUE, ok |-> out = "ok", data |-> ListQuery(f), next |-> f]

\* Mutant: a failed fetch empties the list.
FetchEnd_ClearsOnError(f, r) ==
  /\ items' = IF r.ok THEN r.data ELSE {}
  /\ listLoading' = FALSE
  /\ refreshing' = IF f.isRefresh THEN FALSE ELSE refreshing

\* The end of the fetch: setWorkouts(data || []) unless the call returned an
\* error or raised, then `finally { setLoading(false); if (isRefresh)
\* setRefreshing(false) }`.
FetchEnd(f, r) ==
  /\ items' = IF r.ok THEN r.data ELSE items
  /\ listLoading' = FALSE
  /\ refreshing' = IF f.isRefresh THEN FALSE ELSE refreshing

\* The gateway answers the request of fetch i and the fetch runs on; when the
\* fetch awaited by handleWorkoutLike ends, the handler returns and the card
\* runs setIsLiking(false).
FetchResolve(i, out) ==
  /\ i \in 1..Len(fetches)
  /\ LET f == fetches[i]
         r == FetchStep(f, out)
     IN IF r.done
          THEN /\ FetchEnd(f, r)
               /\ fetches' = RemoveAt(fetches, i)
               /\ likePc' = IF f.from = "like" THEN "idle" ELSE likePc
               /\ isLiking' = IF f.from = "like" THEN FALSE ELSE isLiking
          ELSE /\ fetches' = [fetches EXCEPT ![i] = r.next]
               /\ UNCHANGED <<items, listLoading, refreshing, likePc,
                              isLiking>>
  /\ UNCHANGED <<screen, likeUser, likeWorkout>>

\* WorkoutCard.handleLike on the card of workout w, up to the first await of
\* workoutService.toggleWorkoutLike.
handleLike(w) ==
  /\ Mounted
  /\ ~listLoading
  /\ w \in items
  /\ ~isLiking
  /\ likePc = "idle"
  /\ isLiking' = TRUE
  /\ likePc' = "toggle"
  /\ likeUser' = user
  /\ likeWorkout' = w.id
  /\ toggleWorkoutLike(w.id)
  /\ UNCHANGED <<screen, items, listLoading, refreshing, fetches>>

\* handleWorkoutLike after `await toggleWorkoutLike`: on an error it alerts
\* and returns, else it awaits the screen's fetch with isRefresh = true.
handleWorkoutLikeResume ==
  /\ likePc = "toggle"
  /\ fcall.fn = "toggleWorkoutLike"
  /\ fcall.stage = "returned"
  /\ IF fcall.error # NoError
       THEN /\ likePc' = "idle"
            /\ isLiking' = FALSE
            /\ UNCHANGED <<listLoading, fetches>>
       ELSE /\ Len(fetches) < MaxFetches
            /\ FetchCall(TRUE, "like", likeUser)
            /\ likePc' = IF FetchRuns(likeUser) THEN "refetch" ELSE "idle"
            /\ isLiking' = FetchRuns(likeUser)
  /\ UNCHANGED <<screen, items, refreshing, likeUser, likeWorkout>>

\* Another session of the same user toggles the same like in between.
OtherSessionToggle(uid, wid) ==
  /\ likes' = IF <<uid, wid>> \in likes
                THEN likes \ {<<uid, wid>>}
                ELSE likes \cup {<<uid, wid>>}
  /\ UNCHANGED <<follows, workouts, fcall, gwSession>>

\* ------------------------------------- FollowButton on UserProfileScreen
VARIABLES
  btnIsFollowing,  \* FollowButton useState `isFollowing`
  btnLoading,      \* FollowButton useState `loading`: a toggle is running
  checkingStatus,  \* FollowButton useState `checkingStatus`
  checkedFor,      \* the `user` dependency the effect last ran with
  check,           \* the followService.isFollowing call of checkFollowStatus
  followersCount   \* UserProfileScreen useState `followersCount`

buttonVars == <<btnIsFollowing, btnLoading, checkingStatus, checkedFor,
                check, followersCount>>

\* route.params.userId of the profile viewed: the button's targetUserId.
targetUserId == "u2"

NoDeps == [unmounted |-> TRUE]

\* followService.getFollowersCount(userId) as the gateway counts it.
getFollowersCount(userId) == Cardinality({f \in follows : f[2] = userId})

\* FollowButton's useState initial values; the effect has not run yet.
ButtonStateInit ==
  /\ btnIsFollowing = FALSE
  /\ btnLoading = FALSE
  /\ checkingStatus = TRUE
  /\ checkedFor = NoDeps
  /\ check = FReturned("none", Null, NoError)

\* The profile screen has loaded (its counts are set) and has just rendered
\* the button.
ButtonInit ==
  /\ ButtonStateInit
  /\ followersCount = getFollowersCount(targetUserId)

\* The render guard: `if (checkingStatus || !user || user.id ===
\* targetUserId) return null`.
Rendered ==
  /\ Mounted
  /\ ~checkingStatus
  /\ user # Null
  /\ user.id # targetUserId

\* A call whose await rejected.
Raised(c) == FReturned(c.fn, Null, "raised")

\* useEffect(..., [targetUserId, user]) runs checkFollowStatus up to its
\* first await: on mount and whenever `user` has changed.
checkFollowStatus ==
  /\ Mounted
  /\ checkedFor # user
  /\ check.stage = "returned" /\ check.fn = "none"
  /\ checkedFor' = user
  /\ IF user = Null \/ user = UserOf(targetUserId)
       THEN /\ checkingStatus' = FALSE
            /\ UNCHANGED check
       ELSE /\ check' = [fn |-> "isFollowing", stage |-> "getUser",
                         arg |-> targetUserId, actor |-> Null, req |-> Null,
                         value |-> Null, error |-> NoError]
            /\ UNCHANGED checkingStatus
  /\ UNCHANGED <<btnIsFollowing, btnLoading, followersCount>>

\* The subscription delivers a notification with the refreshed session of
\* the same user: setSession and setUser get new objects, so the button's
\* effect is due again, and the callback fetches the profile.
TokenRefreshed ==
  /\ Mounted
  /\ gwSession = session
  /\ events = <<>>
  /\ Len(inflight) < MaxInflight
  /\ SetStore(OnAuthStateChangeSync(Store, gwSession))
  /\ inflight' = StartFetch("event", gwSession.user.id)
  /\ checkedFor' = NoDeps
  /\ UNCHANGED <<boot, events, op, gwSession, gwProfiles>>
  /\ UNCHANGED <<btnIsFollowing, btnLoading, checkingStatus, check,
                 followersCount>>

\* The gateway answers the pending await of followService.isFollowing, or
\* the await rejects.
CheckServe(out) ==
  /\ check.stage \in {"getUser", "request"}
  /\ check' =
       IF out = "throw"
         THEN Raised(check)
         ELSE IF check.stage = "getUser"
                THEN AfterGetUser(check, IF out = "ok" /\ gwSession # Null
                                           THEN gwSession.user
                                           ELSE Null)
                ELSE AfterRequest(check, GwAnswer(check.req, out))
  /\ UNCHANGED <<btnIsFollowing, btnLoading, checkingStatus, checkedFor,
                 followersCount>>

\* checkFollowStatus after its await: setIsFollowing(following) unless the
\* call returned an error or raised.
CheckShown(c) == IF c.error = NoError THEN c.value ELSE btnIsFollowing

\* checkFollowStatus runs on: the result, then `finally {
\* setCheckingStatus(false) }`.
checkFollowStatusResume ==
  /\ check.fn = "isFollowing"
  /\ check.stage = "returned"
  /\ btnIsFollowing' = CheckShown(check)
  /\ checkingStatus' = FALSE
  /\ check' = FReturned("none", Null, NoError)
  /\ UNCHANGED <<btnLoading, checkedFor, followersCount>>

\* Mutant: the button asks for a follow whatever it shows.
ToggleFn_AlwaysFollow(shown) == "followUser"

\* handleToggleFollow: `if (isFollowing) unfollowUser else followUser`.
ToggleFn(shown) == IF shown THEN "unfollowUser" ELSE "followUser"

\* handleToggleFollow on a press of the rendered button (disabled while
\* loading; `if (!user || loading) return`), up to its await.
handleToggleFollow ==
  /\ Rendered
  /\ ~btnLoading
  /\ btnLoading' = TRUE
  /\ FacadeCall(ToggleFn(btnIsFollowing), targetUserId)
  /\ UNCHANGED <<btnIsFollowing, checkingStatus, checkedFor, check,
                 followersCount>>

\* The pending await of the facade call rejects.
FacadeRaise ==
  /\ fcall.stage \in {"getUser", "request"}
  /\ fcall' = Raised(fcall)
  /\ UNCHANGED <<follows, likes, workouts, gwSession>>

\* Mutant: the count goes up on every change.
handleFollowChange_AlwaysUp(prev, nowFollowing) == prev + 1

\* UserProfileScreen.handleFollowChange:
\* setFollowersCount(prev => isFollowing ? prev + 1 : prev - 1).
handleFollowChange(prev, nowFollowing) ==
  IF nowFollowing THEN prev + 1 ELSE prev - 1

\* handleToggleFollow after its await: on an error or a raise it alerts, else
\* it flips the state it was called with and tells the parent; `finally {
\* setLoading(false) }`.
handleToggleFollowResume ==
  /\ btnLoading
  /\ fcall.fn \in {"followUser", "unfollowUser"}
  /\ fcall.stage = "returned"
  /\ btnLoading' = FALSE
  /\ IF fcall.error # NoError
       THEN UNCHANGED <<btnIsFollowing, followersCount>>
       ELSE /\ btnIsFollowing' = (fcall.fn = "followUser")
            /\ followersCount' = handleFollowChange(followersCount,
                                                    fcall.fn = "followUser")
            /\ followersCount' \in (0 - MaxCount)..MaxCount
  /\ UNCHANGED <<checkingStatus, checkedFor, check>>

\* -------------------------------------------------------- SearchScreen
VARIABLES
  searchTerm,     \* useState `searchTerm`, as its characters
  results,        \* useState `results`: the ids of the profiles listed
  searchLoading,  \* useState `loading` of the screen
  debounce,       \* the 300 ms timeout of the effect is pending
  searches        \* performSearch calls awaiting profileService.searchUsers

searchVars == <<searchTerm, results, searchLoading, debounce, searches>>

Chars == {" ", "a"}

Terms == UNION {[1..n -> Chars] : n \in 0..MaxTermLen}

RECURSIVE TrimStart(_)
TrimStart(s) ==
  IF s # <<>> /\ Head(s) = " " THEN TrimStart(Tail(s)) ELSE s

RECURSIVE TrimEnd(_)
TrimEnd(s) ==
  IF s # <<>> /\ s[Len(s)] = " " THEN TrimEnd(SubSeq(s, 1, Len(s) - 1)) ELSE s

\* String.prototype.trim()
Trim(s) == TrimEnd(TrimStart(s))

\* The characters of the names the profiles carry.
NameChars(name) ==
  CASE name = "ann" -> <<"a", "n", "n">>
    [] name = "bob" -> <<"b", "o", "b">>

\* ilike '%term%'
Contains(s, t) ==
  \E i \in 0..(Len(s) - Len(t)) : SubSeq(s, i + 1, i + Len(t)) = t

\* profileService.searchUsers(term): the ids of the rows the gateway matches.
searchUsers(term) ==
  {u \in Users : Contains(NameChars(gwProfiles[u].full_name), term)}

\* useState initial values; the debounce effect has run for the empty term.
SearchInit ==
  /\ searchTerm = <<>>
  /\ results = {}
  /\ searchLoading = FALSE
  /\ debounce = TRUE
  /\ searches = <<>>

\* The render branch: searchTerm.trim() ? results : suggested users.
Branch(term) == IF Trim(term) # <<>> THEN "results" ELSE "suggested"

\* TextInput.onChangeText (and the clear button): setSearchTerm(t); the
\* effect clears the pending timeout and sets a new one.
onChangeText(t) ==
  /\ t # searchTerm
  /\ searchTerm' = t
  /\ debounce' = TRUE
  /\ UNCHANGED <<results, searchLoading, searches>>

\* Mutant: the handler tests the term as typed.
Searchable_Untrimmed(term) == term # <<>>

\* `if (searchTerm.trim())`
Searchable(term) == Trim(term) # <<>>

\* The timeout fires: performSearch() up to its await for a term that is not
\* blank, setResults([]) for a blank one.
DebounceFires ==
  /\ debounce
  /\ debounce' = FALSE
  /\ IF Searchable(searchTerm)
       THEN /\ Len(searches) < MaxSearches
            /\ searchLoading' = TRUE
            /\ searches' = Append(searches,
                                  [term |-> searchTerm,
                                   viewer |-> IF user = Null THEN "none"
                                                             ELSE user.id])
            /\ UNCHANGED results
       ELSE /\ results' = {}
            /\ UNCHANGED <<searchLoading, searches>>
  /\ UNCHANGED searchTerm

\* performSearch after its await: the result without the current user unless
\* the call returned an error or raised; `finally { setLoading(false) }`.
performSearchResume(i, out) ==
  /\ i \in 1..Len(searches)
  /\ results' = IF out = "ok"
                  THEN searchUsers(searches[i].term) \ {searches[i].viewer}
                  ELSE results
  /\ searchLoading' = FALSE
  /\ searches' = RemoveAt(searches, i)
  /\ UNCHANGED <<searchTerm, debounce>>

\* --------------------------------------------------- UserProfileScreen
VARIABLES
  focused,         \* React Navigation: the list screen has the focus
  viewProfile,     \* UserProfileScreen useState `profile`
  viewWorkouts,    \* UserProfileScreen useState `workouts`
  followingCount,  \* UserProfileScreen useState `followingCount`
  viewLoading      \* UserProfileScreen useState `loading`

viewVars == <<viewProfile, viewWorkouts, followingCount, viewLoading>>

\* useState initial values of the profile screen; no list screen has the
\* focus yet.
ViewInit ==
  /\ focused = FALSE
  /\ viewProfile = Null
  /\ viewWorkouts = {}
  /\ followingCount = 0
  /\ viewLoading = TRUE

\* followService.getFollowingCount(userId) as the gateway counts it.
getFollowingCount(userId) == Cardinality({f \in follows : f[1] = userId})

\* The value a count read returns: `{count: count || 0, error}`.
CountResult(n, out) ==
  [count |-> IF out = "ok" THEN n ELSE 0, error |-> ErrorOf(out)]

\* profileService.getProfile(userId): the row (every id of the model has
\* one), or the gateway's error.
getProfile(userId, out) ==
  [data |-> IF out = "ok" THEN gwProfiles[userId] ELSE Null,
   error |-> ErrorOf(out)]

\* The value getUserWorkouts returns: {data, error}, data null on an error.
WorkoutsResult(userId, out) ==
  [data |-> IF out = "ok" THEN getUserWorkouts(userId) ELSE Null,
   error |-> ErrorOf(out)]

\* Mutant: the list is set as the gateway returned it.
PublicOnly_NoFilter(res) == IF res.error # NoError THEN {} ELSE res.data

\* `data?.filter(w => w.is_public) || []` on a result whose data is null
\* exactly when it carries an error.
PublicOnly(res) ==
  IF res.error # NoError THEN {} ELSE {w \in res.data : w.is_public}

\* fetchUserData after `await Promise.all([...])`, the four reads answered
\* with outcomes pr, fl, fg and wo: a rejected read rejects the join (catch:
\* nothing is set); an error of the profile read returns before the setters;
\* `finally { setLoading(false) }`.
fetchUserDataResume(pr, fl, fg, wo) ==
  /\ Mounted
  /\ viewLoading
  /\ viewLoading' = FALSE
  /\ IF \/ "throw" \in {pr, fl, fg, wo}
        \/ getProfile(targetUserId, pr).error # NoError
       THEN UNCHANGED <<viewProfile, followersCount, followingCount,
                        viewWorkouts>>
       ELSE /\ viewProfile' = getProfile(targetUserId, pr).data
            /\ followersCount' =
                 CountResult(getFollowersCount(targetUserId), fl).count
            /\ followingCount' =
                 CountResult(getFollowingCount(targetUserId), fg).count
            /\ viewWorkouts' = PublicOnly(WorkoutsResult(targetUserId, wo))
  /\ UNCHANGED <<focused, btnIsFollowing, btnLoading, checkingStatus,
                 checkedFor, check>>

\* The profile is rendered: `if (loading) <LoadingSpinner/>`, `if (!profile)
\* "User not found"`.
ViewShown == Mounted /\ ~viewLoading /\ viewProfile # Null

\* `{user && user.id !== userId && <FollowButton .../>}` inside the rendered
\* profile.
ButtonMounted == ViewShown /\ user.id # targetUserId

\* WorkoutCard.handleLike on a card of the profile's list, up to the first
\* await of workoutService.toggleWorkoutLike.
viewHandleLike(w) ==
  /\ ViewShown
  /\ w \in viewWorkouts
  /\ ~isLiking
  /\ likePc = "idle"
  /\ isLiking' = TRUE
  /\ likePc' = "toggle"
  /\ likeUser' = user
  /\ likeWorkout' = w.id
  /\ toggleWorkoutLike(w.id)
  /\ UNCHANGED <<screen, items, listLoading, refreshing, fetches>>

\* UserProfileScreen.handleWorkoutLike after `await toggleWorkoutLike`: on an
\* error it alerts and returns, else it awaits getUserWorkouts(userId).
viewLikeResume ==
  /\ likePc = "toggle"
  /\ fcall.fn = "toggleWorkoutLike"
  /\ fcall.stage = "returned"
  /\ likePc' = IF fcall.error # NoError THEN "idle" ELSE "refetch"
  /\ isLiking' = (fcall.error = NoError)
  /\ UNCHANGED <<screen, items, listLoading, refreshing, fetches, likeUser,
                 likeWorkout>>

\* handleWorkoutLike after `await getUserWorkouts(userId)`:
\* setWorkouts(data?.filter(w => w.is_public) || []); a rejected await is
\* caught and sets nothing.
viewRefetchResolve(out) ==
  /\ likePc = "refetch"
  /\ viewWorkouts' = IF out = "throw"
                       THEN viewWorkouts
                       ELSE PublicOnly(WorkoutsResult(targetUserId, out))
  /\ likePc' = "idle"
  /\ isLiking' = FALSE
  /\ UNCHANGED <<screen, items, listLoading, refreshing, fetches, likeUser,
                 likeWorkout>>
  /\ UNCHANGED <<viewProfile, followingCount, viewLoading, focused>>

uiVars == <<listVars, buttonVars, searchVars, viewVars, focused>>

\* What the list screens, the Follow button and the Search screen leave alone
\* of the other screens.
notList == <<buttonVars, searchVars, viewVars, focused>>
notButton == <<listVars, searchVars, viewVars, focused>>
notSearch == <<listVars, buttonVars, viewVars, focused>>

\* What the session store's steps leave alone.
otherVars == <<facadeVars, uiVars>>

\* What the facade's steps leave alone: the store and the screens.
clientVars == <<storeVars, uiVars>>

\* ------------------------------------------------------ specifications
vars == <<authVars, facadeVars, uiVars>>

Init ==
  /\ AuthInit
  /\ FacadeInit
  /\ ListScreenInit("Home")
  /\ ButtonInit
  /\ SearchInit
  /\ ViewInit

\* The session store's lifecycle over the gateway: bootstrap, the
\* subscription, signIn, signUp, signOut and refreshProfile.
Next ==
  \/ \E o \in Outcomes : GetCurrentSessionResolve(o) /\ UNCHANGED otherVars
  \/ GetInitialSessionResume /\ UNCHANGED otherVars
  \/ \E o \in Outcomes : GetInitialSessionFetched(o) /\ UNCHANGED otherVars
  \/ \E i \in 1..MaxInflight, o \in Outcomes :
       FetchProfileResolve(i, o) /\ UNCHANGED otherVars
  \/ OnAuthStateChange /\ UNCHANGED otherVars
  \/ \E s \in SessionOrNull : GwSessionChange(s) /\ UNCHANGED otherVars
  \/ \E u \in Users : signIn(u) /\ UNCHANGED otherVars
  \/ \E u \in Users : signUp(u) /\ UNCHANGED otherVars
  \/ signOut /\ UNCHANGED otherVars
  \/ refreshProfile /\ UNCHANGED otherVars
  \/ \E o \in Outcomes : GwAuthRespond(o) /\ UNCHANGED otherVars
  \/ OpResume /\ UNCHANGED otherVars

Spec == Init /\ [][Next]_vars

\* The session store's profile over the gateway: bootstrap, the subscription
\* (every change of identity reaches the store through it), refreshProfile
\* and updateProfile.
NextProfile ==
  \/ \E o \in Outcomes : GetCurrentSessionResolve(o) /\ UNCHANGED otherVars
  \/ GetInitialSessionResume /\ UNCHANGED otherVars
  \/ \E o \in Outcomes : GetInitialSessionFetched(o) /\ UNCHANGED otherVars
  \/ \E i \in 1..MaxInflight, o \in Outcomes :
       FetchProfileResolve(i, o) /\ UNCHANGED otherVars
  \/ OnAuthStateChange /\ UNCHANGED otherVars
  \/ \E s \in SessionOrNull : GwSessionChange(s) /\ UNCHANGED otherVars
  \/ \E p \in Partials : updateProfile(p) /\ UNCHANGED otherVars
  \/ refreshProfile /\ UNCHANGED otherVars
  \/ \E o \in Outcomes : GwProfileRespond(o) /\ UNCHANGED otherVars
  \/ OpResume /\ UNCHANGED otherVars

SpecProfile == Init /\ [][NextProfile]_vars

\* The service facade over the gateway; the session store is left alone.
NextFacade ==
  \/ \E u \in Users : followUser(u) /\ UNCHANGED clientVars
  \/ \E u \in Users : unfollowUser(u) /\ UNCHANGED clientVars
  \/ \E u \in Users : isFollowing(u) /\ UNCHANGED clientVars
  \/ \E w \in WorkoutInputs : createWorkout(w) /\ UNCHANGED clientVars
  \/ \E w \in workouts : toggleWorkoutLike(w.id) /\ UNCHANGED clientVars
  \/ \E o \in {"ok", "err"} : GetUserResolve(o) /\ UNCHANGED clientVars
  \/ \E o \in {"ok", "err"} : GwServe(o) /\ UNCHANGED clientVars
  \/ \E s \in SessionOrNull : FacadeSessionChange(s) /\ UNCHANGED clientVars

SpecFacade == Init /\ [][NextFacade]_vars

\* The event loop runs every continuation whose request has been answered and
\* every request is answered; calls of the user and changes made by the
\* gateway's auth subsystem are not forced.
AuthFairness ==
  /\ WF_vars((\E o \in Outcomes : GetCurrentSessionResolve(o))
               /\ UNCHANGED otherVars)
  /\ WF_vars(GetInitialSessionResume /\ UNCHANGED otherVars)
  /\ WF_vars((\E o \in Outcomes : GetInitialSessionFetched(o))
               /\ UNCHANGED otherVars)
  /\ WF_vars((\E i \in 1..MaxInflight, o \in Outcomes :
                 FetchProfileResolve(i, o))
               /\ UNCHANGED otherVars)
  /\ WF_vars(OnAuthStateChange /\ UNCHANGED otherVars)
  /\ WF_vars((\E o \in Outcomes : GwAuthRespond(o)) /\ UNCHANGED otherVars)
  /\ WF_vars(OpResume /\ UNCHANGED otherVars)

FairSpec == Init /\ [][Next]_vars /\ AuthFairness

\* The session store at rest with session s: bootstrap has ended, nothing is
\* pending, and the profile of the session's user has been fetched.
StoreAtRest(s) ==
  /\ user = IF s = Null THEN Null ELSE s.user
  /\ session = s
  /\ profile = IF s = Null THEN Null ELSE InitialRow(s.user.id)
  /\ loading = FALSE
  /\ boot = [pc |-> "ended", resp |-> Null]
  /\ events = <<>>
  /\ inflight = <<>>
  /\ op = Returned("none", FALSE, NoError)
  /\ gwSession = s

\* A list screen is mounted for the signed-in user u1, who follows u2; the
\* workouts table holds public workouts of one owner, which u2 may have liked.
InitList ==
  /\ StoreAtRest(SessionOf("u1"))
  /\ gwProfiles = [u \in Users |-> InitialRow(u)]
  /\ follows = {<<"u1", "u2">>}
  /\ likes \in SUBSET {<<"u2", 1>>}
  /\ \E o \in Users :
       workouts = {[id |-> i, user_id |-> o, is_public |-> TRUE] :
                     i \in 1..MaxWorkouts}
  /\ fcall = FReturned("none", Null, NoError)
  /\ \E scr \in Screens : ListScreenInit(scr)
  /\ ButtonInit
  /\ SearchInit
  /\ ViewInit

\* A list screen while the user stays signed in: focus, pull-to-refresh and
\* the like of a card.
NextList ==
  \/ Focus /\ UNCHANGED <<authVars, facadeVars, notList>>
  \/ onRefresh /\ UNCHANGED <<authVars, facadeVars, notList>>
  \/ \E i \in 1..MaxFetches, o \in Outcomes :
       FetchResolve(i, o)
         /\ UNCHANGED <<authVars, facadeVars, notList>>
  \/ \E w \in items :
       handleLike(w) /\ UNCHANGED <<storeVars, notList>>
  \/ \E o \in {"ok", "err"} :
       GetUserResolve(o)
         /\ UNCHANGED <<storeVars, uiVars>>
  \/ \E o \in {"ok", "err"} :
       GwServe(o) /\ UNCHANGED <<storeVars, uiVars>>
  \/ handleWorkoutLikeResume
       /\ UNCHANGED <<authVars, facadeVars, notList>>

SpecList == InitList /\ [][NextList]_vars

\* The same with another session of the user toggling the same likes.
NextListRace ==
  \/ NextList
  \/ \E w \in workouts :
       OtherSessionToggle("u1", w.id) /\ UNCHANGED clientVars

SpecListRace == InitList /\ [][NextListRace]_vars

\* useFocusEffect: the tab of the list screen is selected and its effect runs.
FocusGained ==
  /\ ~focused
  /\ focused' = TRUE
  /\ Focus

\* The user selects another tab: the screen stays mounted without the focus.
Blur ==
  /\ Mounted
  /\ focused
  /\ focused' = FALSE
  /\ UNCHANGED listVars

\* A list screen whose tab gains and loses the focus; the list is pulled and
\* its cards are pressed only while the screen has it.
NextListFocus ==
  \/ FocusGained /\ UNCHANGED <<authVars, facadeVars, buttonVars, searchVars,
                                 viewVars>>
  \/ Blur /\ UNCHANGED <<authVars, facadeVars, buttonVars, searchVars,
                          viewVars>>
  \/ focused /\ onRefresh /\ UNCHANGED <<authVars, facadeVars, notList>>
  \/ \E i \in 1..MaxFetches, o \in Outcomes :
       FetchResolve(i, o) /\ UNCHANGED <<authVars, facadeVars, notList>>
  \/ \E w \in items :
       focused /\ handleLike(w) /\ UNCHANGED <<storeVars, notList>>
  \/ \E o \in {"ok", "err"} :
       GetUserResolve(o) /\ UNCHANGED <<storeVars, uiVars>>
  \/ \E o \in {"ok", "err"} :
       GwServe(o) /\ UNCHANGED <<storeVars, uiVars>>
  \/ handleWorkoutLikeResume /\ UNCHANGED <<authVars, facadeVars, notList>>

SpecListFocus == InitList /\ [][NextListFocus]_vars

\* The profile of u2 has just been mounted for the signed-in user and its
\* fetchUserData is in flight; u2 owns the workouts, public or private.
InitView ==
  /\ \E s \in Sessions : StoreAtRest(s)
  /\ gwProfiles = [u \in Users |-> InitialRow(u)]
  /\ follows \in SUBSET {<<"u1", "u2">>, <<"u2", "u1">>}
  /\ likes \in SUBSET {<<"u2", 1>>}
  /\ \E pub \in [1..MaxWorkouts -> BOOLEAN] :
       workouts = {[id |-> i, user_id |-> targetUserId, is_public |-> pub[i]] :
                     i \in 1..MaxWorkouts}
  /\ fcall = FReturned("none", Null, NoError)
  /\ ListScreenInit(ProfileView)
  /\ ButtonStateInit
  /\ followersCount = 0
  /\ SearchInit
  /\ ViewInit

\* The profile screen: its fetch, its Follow button and the like of a card;
\* the card and the button each wait for their own facade call.
NextView ==
  \/ \E pr \in Outcomes, fl \in Outcomes, fg \in Outcomes, wo \in Outcomes :
       fetchUserDataResume(pr, fl, fg, wo)
         /\ UNCHANGED <<authVars, facadeVars, listVars, searchVars>>
  \/ ButtonMounted /\ checkFollowStatus
       /\ UNCHANGED <<authVars, facadeVars, notButton>>
  \/ \E o \in Outcomes :
       CheckServe(o) /\ UNCHANGED <<authVars, facadeVars, notButton>>
  \/ checkFollowStatusResume /\ UNCHANGED <<authVars, facadeVars, notButton>>
  \/ ButtonMounted /\ likePc # "toggle" /\ handleToggleFollow
       /\ UNCHANGED <<storeVars, notButton>>
  \/ handleToggleFollowResume /\ UNCHANGED <<authVars, facadeVars, notButton>>
  \/ \E o \in {"ok", "err"} : GetUserResolve(o) /\ UNCHANGED clientVars
  \/ \E o \in {"ok", "err"} : GwServe(o) /\ UNCHANGED clientVars
  \/ \E w \in viewWorkouts :
       ~btnLoading /\ viewHandleLike(w)
         /\ UNCHANGED <<storeVars, buttonVars, searchVars, viewVars, focused>>
  \/ viewLikeResume
       /\ UNCHANGED <<authVars, facadeVars, buttonVars, searchVars, viewVars,
                      focused>>
  \/ \E o \in Outcomes :
       viewRefetchResolve(o)
         /\ UNCHANGED <<authVars, facadeVars, buttonVars, searchVars>>

SpecView == InitView /\ [][NextView]_vars

\* The Home screen, the Following screen or the profile of u2 is mounted for
\* u1; one owner holds a private workout (id 0) next to the public ones, and
\* u1 follows u2 or nobody.
InitFeed ==
  /\ StoreAtRest(SessionOf("u1"))
  /\ gwProfiles = [u \in Users |-> InitialRow(u)]
  /\ follows \in {{}, {<<"u1", "u2">>}}
  /\ likes = {}
  /\ \E o \in Users :
       workouts = {[id |-> i, user_id |-> o, is_public |-> i > 0] :
                     i \in 0..MaxWorkouts}
  /\ fcall = FReturned("none", Null, NoError)
  /\ \E scr \in {"Home", "Following", ProfileView} : ListScreenInit(scr)
  /\ ButtonStateInit
  /\ followersCount = 0
  /\ SearchInit
  /\ ViewInit

\* The fetches, refreshes and likes of whichever of the three is mounted; a
\* card of a feed is liked while no fetch is in flight, and the feed is
\* focused or pulled again once the like has run.
NextFeed ==
  \/ screen \in Screens /\ likePc = "idle" /\ Focus
       /\ UNCHANGED <<authVars, facadeVars, notList>>
  \/ screen \in Screens /\ likePc = "idle" /\ onRefresh
       /\ UNCHANGED <<authVars, facadeVars, notList>>
  \/ \E i \in 1..MaxFetches, o \in Outcomes :
       FetchResolve(i, o) /\ UNCHANGED <<authVars, facadeVars, notList>>
  \/ \E w \in items :
       screen \in Screens /\ fetches = <<>> /\ handleLike(w)
         /\ UNCHANGED <<storeVars, notList>>
  \/ screen \in Screens /\ handleWorkoutLikeResume
       /\ UNCHANGED <<authVars, facadeVars, notList>>
  \/ \E o \in {"ok", "err"} : GetUserResolve(o) /\ UNCHANGED clientVars
  \/ \E o \in {"ok", "err"} : GwServe(o) /\ UNCHANGED clientVars
  \/ \E pr \in Outcomes, fl \in Outcomes, fg \in Outcomes, wo \in Outcomes :
       screen = ProfileView /\ fetchUserDataResume(pr, fl, fg, wo)
         /\ UNCHANGED <<authVars, facadeVars, listVars, searchVars>>
  \/ \E w \in viewWorkouts :
       screen = ProfileView /\ viewHandleLike(w)
         /\ UNCHANGED <<storeVars, buttonVars, searchVars, viewVars, focused>>
  \/ screen = ProfileView /\ viewLikeResume
       /\ UNCHANGED <<authVars, facadeVars, buttonVars, searchVars, viewVars,
                      focused>>
  \/ \E o \in Outcomes :
       viewRefetchResolve(o)
         /\ UNCHANGED <<authVars, facadeVars, buttonVars, searchVars>>

SpecFeed == InitFeed /\ [][NextFeed]_vars

\* The profile of u2 is shown to the signed-in user (u2 or another) and its
\* Follow button has just been rendered.
InitFollow ==
  /\ \E s \in Sessions : StoreAtRest(s)
  /\ gwProfiles = [u \in Users |-> InitialRow(u)]
  /\ follows \in SUBSET {<<"u1", "u2">>, <<"u2", "u2">>}
  /\ likes = {}
  /\ workouts = {}
  /\ fcall = FReturned("none", Null, NoError)
  /\ ListScreenInit("Home")
  /\ ButtonInit
  /\ SearchInit
  /\ ViewInit

\* The Follow button over the facade, while the session is refreshed or
\* ends (the screen then goes away with the tabs).
NextFollow ==
  \/ checkFollowStatus
       /\ UNCHANGED <<authVars, facadeVars, notButton>>
  \/ \E o \in Outcomes :
       CheckServe(o) /\ UNCHANGED <<authVars, facadeVars, notButton>>
  \/ checkFollowStatusResume
       /\ UNCHANGED <<authVars, facadeVars, notButton>>
  \/ handleToggleFollow /\ UNCHANGED <<storeVars, notButton>>
  \/ \E o \in {"ok", "err"} :
       GetUserResolve(o) /\ UNCHANGED clientVars
  \/ \E o \in {"ok", "err"} : GwServe(o) /\ UNCHANGED clientVars
  \/ FacadeRaise /\ UNCHANGED clientVars
  \/ handleToggleFollowResume
       /\ UNCHANGED <<authVars, facadeVars, notButton>>
  \/ TokenRefreshed /\ UNCHANGED <<facadeVars, notButton>>
  \/ GwSessionChange(Null) /\ UNCHANGED otherVars
  \/ OnAuthStateChange /\ UNCHANGED otherVars
  \/ \E i \in 1..MaxInflight, o \in Outcomes :
       FetchProfileResolve(i, o) /\ UNCHANGED otherVars

SpecFollow == InitFollow /\ [][NextFollow]_vars

\* The Search screen is mounted for the signed-in user; the profiles carry
\* one of two names.
InitSearch ==
  /\ \E s \in Sessions : StoreAtRest(s)
  /\ \E n \in [Users -> Names] :
       gwProfiles = [u \in Users |-> [InitialRow(u) EXCEPT !.full_name = n[u]]]
  /\ FacadeInit
  /\ ListScreenInit("Home")
  /\ ButtonInit
  /\ SearchInit
  /\ ViewInit

\* The Search screen: typing, the debounce timeout and the search's answer.
NextSearch ==
  \/ \E t \in Terms :
       onChangeText(t)
         /\ UNCHANGED <<authVars, facadeVars, notSearch>>
  \/ DebounceFires /\ UNCHANGED <<authVars, facadeVars, notSearch>>
  \/ \E i \in 1..MaxSearches, o \in Outcomes :
       performSearchResume(i, o)
         /\ UNCHANGED <<authVars, facadeVars, notSearch>>

SpecSearch == InitSearch /\ [][NextSearch]_vars

\* The store at rest for a signed-in user without a handle; the other user
\* may hold one.
InitHandle ==
  /\ \E s \in Sessions, h \in Handles \cup {NoHandle} :
       /\ StoreAtRest(s)
       /\ gwProfiles = [u \in Users |->
                          IF u = s.user.id
                            THEN InitialRow(u)
                            ELSE [InitialRow(u) EXCEPT !.username = h]]
  /\ FacadeInit
  /\ ListScreenInit("Home")
  /\ ButtonInit
  /\ SearchInit
  /\ ViewInit

\* updateProfile with any Partial<Profile>, and refreshProfile.
NextHandle ==
  \/ \E p \in Partials \cup HandlePartials :
       updateProfile(p) /\ UNCHANGED otherVars
  \/ refreshProfile /\ UNCHANGED otherVars
  \/ \E i \in 1..MaxInflight, o \in Outcomes :
       FetchProfileResolve(i, o) /\ UNCHANGED otherVars
  \/ \E o \in Outcomes : GwProfileRespond(o) /\ UNCHANGED otherVars
  \/ OpResume /\ UNCHANGED otherVars

SpecHandle == InitHandle /\ [][NextHandle]_vars


\* ------------------------------------------------------------- claims
SignKinds == {"signIn", "signUp"}

\* The step on which the call in progress runs on after its await and ends.
OpReturns(kinds) ==
  /\ op.kind \in kinds
  /\ op.stage = "back"
  /\ op'.stage = "returned"

\* C1: at the moment signOut returns, identity, credential and profile are
\* absent, whether the remote sign-out succeeded or reported an error.
C1_SignOutClears ==
  [][(OpReturns({"signOut"}) /\ op.out \in {"ok", "err"})
       => (user' = Null /\ session' = Null /\ profile' = Null)]_vars

\* signOut has returned the gateway's error, the gateway still holds the
\* session, and the store is cleared.
C1_Witness ==
  /\ op = Returned("signOut", FALSE, "GatewayError")
  /\ gwSession # Null
  /\ user = Null /\ session = Null /\ profile = Null

\* C2: updateProfile without an identity returns the unauthenticated error,
\* sends no request to the gateway and leaves the store unchanged.
C2_UpdateProfileUnauthenticated ==
  [][(Idle /\ user = Null /\ op' # op /\ op'.kind = "updateProfile")
       => /\ op' = Returned("updateProfile", FALSE, "No user logged in")
          /\ UNCHANGED <<user, session, profile, loading, gwProfiles>>]_vars

C2_Witness ==
  /\ op = Returned("updateProfile", FALSE, "No user logged in")
  /\ user = Null
  /\ boot.pc = "ended"

\* C3: updateProfile with an identity sends one update keyed by that
\* identity's id; on success the profile becomes the row the gateway returned
\* (not the partial sent), on error the profile is unchanged and the error is
\* returned as a value.
C3_UpdateProfileAuthenticated ==
  [][/\ (Idle /\ user # Null /\ op' # op /\ op'.kind = "updateProfile")
          => (op'.stage = "sent" /\ op'.arg.id = user.id /\ op'.data \in Partials)
     /\ (op.kind = "updateProfile" /\ op.stage = "sent" /\ op' # op)
          => /\ \A u \in Users \ {op.arg.id} : gwProfiles'[u] = gwProfiles[u]
             /\ op'.out = "ok" => /\ op'.data = gwProfiles'[op.arg.id]
                                  /\ op'.data.id = op.arg.id
     /\ (OpReturns({"updateProfile"}) /\ op.out = "ok")
          => /\ profile' = op.data
             /\ profile' \notin Partials
             /\ op' = Returned("updateProfile", FALSE, NoError)
     /\ (OpReturns({"updateProfile"}) /\ op.out = "err")
          => /\ profile' = profile
             /\ op' = Returned("updateProfile", FALSE, "GatewayError")]_vars

\* A successful update has returned and the store holds the server's row.
C3_Witness ==
  /\ op = Returned("updateProfile", FALSE, NoError)
  /\ user # Null
  /\ profile = gwProfiles[user.id]
  /\ profile.updated_at = "updated"

\* The whole onAuthStateChange callback for notification s when its profile
\* request is answered with outcome out.
CallbackResult(st, s, out) ==
  IF s # Null
    THEN AfterFetch(FetchProfileApply(OnAuthStateChangeSync(st, s), out,
                                      gwProfiles[s.user.id]), "event")
    ELSE OnAuthStateChangeSync(st, s)

\* The step on which the subscription delivers a notification.
Delivers == events # <<>> /\ Len(events') < Len(events)

\* C5: a notification with a session sets identity and credential from it and
\* starts a profile fetch for its user; one without a session clears identity,
\* credential and profile; applying a notification twice equals applying it
\* once.
C5_SessionChangeEvents ==
  /\ [][/\ (Delivers /\ Head(events) # Null)
             => /\ session' = Head(events)
                /\ user' = Head(events).user
                /\ inflight' = Append(inflight,
                                      [owner |-> "event",
                                       uid |-> Head(events).user.id])
        /\ (Delivers /\ Head(events) = Null)
             => (user' = Null /\ session' = Null /\ profile' = Null
                 /\ inflight' = inflight)]_vars
  /\ [](\A s \in SessionOrNull, o \in Outcomes :
          /\ OnAuthStateChangeSync(OnAuthStateChangeSync(Store, s), s)
               = OnAuthStateChangeSync(Store, s)
          /\ CallbackResult(CallbackResult(Store, s, o), s, o)
               = CallbackResult(Store, s, o))

\* A notification with a session has been applied and its fetch is pending.
C5_Witness ==
  /\ user # Null
  /\ session # Null /\ session.user = user
  /\ \E i \in 1..Len(inflight) :
       inflight[i] = [owner |-> "event", uid |-> user.id]
  /\ profile # Null /\ profile.id # user.id

\* C7: signIn and signUp never write identity, credential or profile; a
\* failure is returned as the gateway's error value; those fields change only
\* on other steps (the subscription's callback among them).
C7_SignInWritesNothing ==
  [][/\ (op' # op /\ op'.kind \in SignKinds)
          => UNCHANGED <<user, session, profile>>
     /\ (OpReturns(SignKinds) /\ op.out = "err")
          => op' = Returned(op.kind, FALSE, "GatewayError")
     /\ (OpReturns(SignKinds) /\ op.out = "ok")
          => op' = Returned(op.kind, FALSE, NoError)
     /\ (user' # user \/ session' # session)
          => (Delivers \/ boot' # boot \/ OpReturns({"signOut"}))]_vars

\* signIn has returned success and the store is still unpopulated: the
\* notification is yet to be delivered.
C7_Witness ==
  /\ op = Returned("signIn", FALSE, NoError)
  /\ user = Null /\ profile = Null
  /\ events # <<>> /\ Head(events) # Null

\* No request, continuation or notification is pending.
Quiescent ==
  /\ boot.pc = "ended"
  /\ events = <<>>
  /\ inflight = <<>>
  /\ Idle

\* C4: after mount, loading eventually becomes false for every outcome of
\* bootstrap.
C4_LoadingEventuallyFalse == <>(loading = FALSE)

\* C6: once nothing is in flight the store is not half-updated: no profile
\* without identity, and a profile present is that of the current identity.
C6_NotHalfUpdated ==
  Quiescent => /\ user = Null => profile = Null
               /\ profile # Null => (user # Null /\ profile.id = user.id)

\* C8: when signIn or signUp completes, for every outcome of the gateway
\* request, loading is false again.
C8_BusyCleared ==
  [][OpReturns(SignKinds) => loading' = FALSE]_vars
\* The acting user a request's row names.
ActorOf(req) ==
  IF req.table = "workouts" THEN req.row.user_id ELSE req.row[1]

IdentityScoped == {"followUser", "unfollowUser", "toggleWorkoutLike",
                   "createWorkout"}

\* C9: followUser, unfollowUser, toggleWorkoutLike and createWorkout take the
\* acting identity from the gateway's session when getUser() answers, never
\* from their input; without a session they return the unauthenticated error
\* and send no insert or delete.
C9_ActorFromSession ==
  [][/\ (fcall.stage = "getUser" /\ fcall' # fcall
           /\ fcall.fn \in IdentityScoped /\ gwSession = Null)
          => /\ fcall' = FReturned(fcall.fn, Null, "Not authenticated")
             /\ UNCHANGED <<follows, likes, workouts>>
     /\ (fcall.stage = "getUser" /\ fcall'.stage = "request"
           /\ fcall.fn \in IdentityScoped)
          => /\ gwSession # Null
             /\ fcall'.actor = gwSession.user
             /\ ActorOf(fcall'.req) = gwSession.user.id
     /\ (fcall.stage = "request" /\ fcall'.stage = "request")
          => ActorOf(fcall'.req) = fcall.actor.id
     /\ (follows' # follows \/ likes' # likes \/ workouts' # workouts)
          => /\ fcall.stage = "request"
             /\ \A r \in ((follows' \ follows) \cup (follows \ follows')
                            \cup (likes' \ likes) \cup (likes \ likes')) :
                  r[1] = fcall.actor.id
             /\ \A w \in workouts' \ workouts : w.user_id = fcall.actor.id
    ]_vars

\* createWorkout was given another user's id and sends the session's.
C9_Witness ==
  /\ fcall.fn = "createWorkout"
  /\ fcall.stage = "request"
  /\ fcall.arg.user_id # fcall.actor.id
  /\ fcall.req.row.user_id = fcall.actor.id

\* C10: isFollowing by an authenticated viewer returns {false, no error} when
\* the edge is absent, {true, no error} when it exists, and an error exactly
\* when the request failed.
C10_IsFollowing ==
  /\ []((fcall.fn = "isFollowing" /\ fcall.stage = "request") =>
          /\ IsFollowingResult(GwAnswer(fcall.req, "ok"))
               = [value |-> <<fcall.actor.id, fcall.arg>> \in follows,
                  error |-> NoError]
          /\ IsFollowingResult(GwAnswer(fcall.req, "err")).error # NoError
          /\ IsFollowingResult(GwAnswer(fcall.req, "err")).value = FALSE)
  /\ [][(fcall.fn = "isFollowing" /\ fcall.stage = "request"
           /\ fcall' # fcall)
          => \E o \in {"ok", "err"} :
               fcall' = FReturned("isFollowing",
                                  IsFollowingResult(GwAnswer(fcall.req, o)).value,
                                  IsFollowingResult(GwAnswer(fcall.req, o)).error)
    ]_vars

\* No edge at all, and isFollowing has answered false without an error.
C10_Witness ==
  /\ fcall = FReturned("isFollowing", FALSE, NoError)
  /\ follows = {}

C12_ToggleMatchesGateway ==
  [][/\ (/\ fcall.fn = "toggleWorkoutLike"
         /\ fcall.stage = "request"
         /\ fcall.req.verb = "single"
         /\ fcall' # fcall)
          => /\ fcall'.stage = "request"
             /\ fcall'.req.row = fcall.req.row
             /\ fcall'.req.verb = IF fcall.req.row \in likes THEN "delete"
                                                             ELSE "insert"
     /\ (/\ fcall.fn = "toggleWorkoutLike"
         /\ fcall.stage = "request"
         /\ fcall.req.verb \in {"insert", "delete"}
         /\ fcall' # fcall)
          => /\ fcall'.stage = "returned"
             /\ fcall'.value = (fcall.req.verb = "insert")]_vars

\* The likes of workout wid that are not the viewer's: with no other session
\* acting, the count of the workout the viewer has not liked.
OthersLikes(wid) == Cardinality({l \in likes : l[2] = wid /\ l[1] # "u1"})

\* The step on which the fetch awaited by handleWorkoutLike ends with a list.
LikeRefetched(i) ==
  /\ FetchResolve(i, "ok")
  /\ fetches[i].from = "like"
  /\ FetchStep(fetches[i], "ok").done
  /\ FetchStep(fetches[i], "ok").ok

\* C13: with no other session acting, a successful toggle on a workout the
\* user has not liked inserts the like and the list fetched next shows the
\* original count plus one; the next successful toggle deletes it and the
\* list fetched next shows the original count.
C13_LikeCountRoundTrip ==
  [][/\ (/\ fcall.fn = "toggleWorkoutLike"
         /\ fcall.stage = "request"
         /\ fcall'.stage = "returned"
         /\ fcall'.error = NoError)
          => /\ fcall'.value = (fcall.req.row \notin likes)
             /\ likes' = IF fcall'.value THEN likes \cup {fcall.req.row}
                                         ELSE likes \ {fcall.req.row}
     /\ \A i \in 1..MaxFetches :
          (LikeRefetched(i) /\ \E it \in items' : it.id = likeWorkout)
            => likeCount(items', likeWorkout)
                 = OthersLikes(likeWorkout) + (IF fcall.value THEN 1 ELSE 0)]_vars

\* Two toggles in a row have succeeded on a workout another user likes, and
\* the list fetched after the second shows the original count again.
C13_Witness ==
  /\ likePc = "idle"
  /\ fetches = <<>>
  /\ fcall.fn = "toggleWorkoutLike"
  /\ fcall.error = NoError
  /\ fcall.value = FALSE
  /\ OthersLikes(likeWorkout) = 1
  /\ likeCount(items, likeWorkout) = 1
  /\ items = getPublicWorkouts

\* The write of a like toggle that does not do what it was sent for: the
\* insert of a pair the gateway holds, or the delete of one it does not hold.
WriteConflicts(req) ==
  \/ req.verb = "insert" /\ req.row \in likes
  \/ req.verb = "delete" /\ req.row \notin likes

\* C14: a like toggle whose insert or delete fails, a duplicate-key insert
\* and a delete that removes nothing included, returns an error value; on an
\* error the screen starts no fetch, keeps its list and its loading flag, and
\* the card takes the next press; on success the screen starts one fetch.
C14_FailedToggleReported ==
  [][/\ (/\ fcall.fn = "toggleWorkoutLike"
         /\ fcall.stage = "request"
         /\ fcall.req.verb \in {"insert", "delete"}
         /\ fcall'.stage = "returned"
         /\ WriteConflicts(fcall.req))
          => fcall'.error # NoError
     /\ (likePc = "toggle" /\ likePc' # "toggle" /\ fcall.error # NoError)
          => /\ UNCHANGED <<fetches, items, listLoading>>
             /\ likePc' = "idle"
             /\ isLiking' = FALSE
     /\ (likePc = "toggle" /\ likePc' # "toggle" /\ fcall.error = NoError)
          => /\ likePc' = "refetch"
             /\ fetches' = Append(fetches, fetches'[Len(fetches')])
             /\ fetches'[Len(fetches')].from = "like"]_vars

\* C15: a press sends followUser(target) when the button shows not-following
\* and unfollowUser(target) when it shows following; when the call returns
\* without error the state shown becomes the opposite of the one pressed and
\* the parent is told (its count moves by one); when it returns an error or
\* raises, the state shown and the count stay; busy is cleared either way,
\* and the count moves on no other step.
C15_ToggleFollow ==
  [][/\ (~btnLoading /\ btnLoading')
          => /\ fcall'.stage = "getUser"
             /\ fcall'.arg = targetUserId
             /\ fcall'.fn = IF btnIsFollowing THEN "unfollowUser"
                                              ELSE "followUser"
             /\ UNCHANGED <<btnIsFollowing, followersCount>>
     /\ (handleToggleFollowResume /\ fcall.error = NoError)
          => /\ btnIsFollowing' = (fcall.fn = "followUser")
             /\ followersCount' = IF btnIsFollowing' THEN followersCount + 1
                                                     ELSE followersCount - 1
             /\ btnLoading' = FALSE
     /\ (handleToggleFollowResume /\ fcall.error # NoError)
          => /\ UNCHANGED <<btnIsFollowing, followersCount>>
             /\ btnLoading' = FALSE
     /\ followersCount' # followersCount
          => (handleToggleFollowResume /\ fcall.error = NoError)]_vars

\* A follow has succeeded: the button shows following, the gateway holds the
\* edge and the parent's count has followed it.
C15_Witness ==
  /\ Rendered
  /\ ~btnLoading
  /\ fcall.fn = "followUser"
  /\ fcall.stage = "returned"
  /\ fcall.error = NoError
  /\ btnIsFollowing
  /\ <<"u1", targetUserId>> \in follows
  /\ followersCount = getFollowersCount(targetUserId)

\* C16: on the profile screen a successful follow from not-following shows
\* following and the count plus one, the successful unfollow after it shows
\* not-following and the count minus one, which is the count from before the
\* first; the count is written by these callbacks only, never fetched again.
C16_FollowRoundTrip ==
  [][/\ (/\ handleToggleFollowResume
         /\ fcall.error = NoError
         /\ fcall.fn = "followUser")
          => /\ btnIsFollowing'
             /\ followersCount' = followersCount + 1
             /\ handleFollowChange(followersCount', FALSE) = followersCount
     /\ (/\ handleToggleFollowResume
         /\ fcall.error = NoError
         /\ fcall.fn = "unfollowUser")
          => /\ ~btnIsFollowing'
             /\ followersCount' = followersCount - 1
     /\ (btnIsFollowing /\ ~btnLoading /\ btnLoading')
          => fcall'.fn = "unfollowUser"
     /\ followersCount' # followersCount
          => /\ handleToggleFollowResume
             /\ follows' = follows]_vars

\* Follow, then unfollow, have succeeded on a profile another user follows:
\* the button shows not-following and the count is the gateway's again.
C16_Witness ==
  /\ Rendered
  /\ ~btnLoading
  /\ fcall.fn = "unfollowUser"
  /\ fcall.stage = "returned"
  /\ fcall.error = NoError
  /\ ~btnIsFollowing
  /\ follows = {<<targetUserId, targetUserId>>}
  /\ followersCount = 1

\* C17: when the existence check of a hidden button returns an error or
\* raises, the button stays hidden: it shows neither 'Follow' nor
\* 'Following' and takes no press.
C17_FailedCheckStaysHidden ==
  [][(/\ checkFollowStatusResume
      /\ checkingStatus
      /\ check.error # NoError)
       => (checkingStatus' /\ ~Rendered')]_vars

\* C18: the button sends a follow or unfollow request only when no toggle is
\* busy and no existence check is in progress.
C18_NoToggleWhileBusyOrChecking ==
  [][(fcall' # fcall /\ fcall'.stage = "getUser")
       => /\ fcall'.fn \in {"followUser", "unfollowUser"}
          /\ ~btnLoading
          /\ ~checkingStatus
          /\ check.fn = "none"]_vars

\* C19: while the search term is empty or only whitespace the screen shows
\* the suggested users, not the results; the debounced handler fired for
\* such a term sends no search request and sets the results to the empty
\* list; no request in flight carries a blank term.
C19_BlankTermShowsSuggested ==
  /\ [](Trim(searchTerm) = <<>> => Branch(searchTerm) = "suggested")
  /\ [](\A i \in 1..Len(searches) : Trim(searches[i].term) # <<>>)
  /\ [][(debounce /\ ~debounce' /\ Trim(searchTerm) = <<>>)
          => /\ searches' = searches
             /\ searchLoading' = searchLoading
             /\ results' = {}]_vars

\* The timeout has fired for a term of one blank: nothing was sent, the
\* results are empty and the suggested users are shown.
C19_Witness ==
  /\ searchTerm = <<" ">>
  /\ ~debounce
  /\ searches = <<>>
  /\ results = {}
  /\ Branch(searchTerm) = "suggested"

\* The step on which fetch i, started by a pull-to-refresh, ends.
RefreshEnds(i, o) ==
  /\ FetchResolve(i, o)
  /\ fetches[i].from = "refresh"
  /\ Len(fetches') < Len(fetches)

\* C20: on every list screen a pull-to-refresh sets refreshing, leaves
\* loading and the list as they are, and when its fetch ends, whatever the
\* outcome, refreshing is false and loading is as it was (a focus fetch
\* still in flight keeps its spinner).
C20_RefreshFrame ==
  [][/\ (Len(fetches') > Len(fetches)
           /\ fetches'[Len(fetches')].from = "refresh")
          => /\ refreshing' = TRUE
             /\ UNCHANGED <<listLoading, items>>
     /\ \A i \in 1..MaxFetches, o \in Outcomes :
          RefreshEnds(i, o)
            => /\ refreshing' = FALSE
               /\ listLoading' = listLoading
               /\ (o # "ok" => items' = items)]_vars

\* C21: for one list screen instance, a focus, pull-to-refresh or post-like
\* re-fetch trigger that arrives while a list fetch is in flight starts no
\* second concurrent fetch: at most one fetch is in flight at any time.
C21_OneFetchInFlight == Len(fetches) <= 1

\* C26: in every reachable state of the session store the identity and the
\* credential are both present or both absent, and a present identity is the
\* user the stored credential carries; bootstrap, the session-change callback
\* and signOut never leave one set without the other.
C26_IdentityWithCredential ==
  /\ (user = Null) <=> (session = Null)
  /\ session # Null => user = session.user

\* The store holds the identity and the credential an event delivered after
\* a signIn returned.
C26_Witness ==
  /\ session # Null
  /\ user = session.user
  /\ boot.pc = "ended"
  /\ op.kind = "signIn"
  /\ op.stage = "returned"

\* C25: every profile write that sets the handle comes after an availability
\* check of that handle excluding the writer's own id, and no update request
\* is issued when the check reports the handle unavailable or fails: the
\* request for a handle is sent only when the check finds it available.
C25_HandleCheckedBeforeWrite ==
  [][(op.stage = "returned" /\ op'.stage = "sent"
        /\ op'.kind = "updateProfile" /\ "username" \in DOMAIN op'.data)
       => checkUsernameAvailable(op'.data.username, user.id, "ok").available
     ]_vars

\* C22: a fetch that resolves after its screen has lost the focus is
\* discarded: it modifies neither the screen's items nor its flags.
C22_LateFetchDiscarded ==
  [][\A i \in 1..MaxFetches, o \in Outcomes :
       (FetchResolve(i, o) /\ ~focused)
         => UNCHANGED <<items, listLoading, refreshing>>]_vars

\* The step on which fetchUserData runs on after its join, the four reads
\* answered with pr, fl, fg and wo.
DataFetched(pr, fl, fg, wo) ==
  /\ viewLoading
  /\ ~viewLoading'
  /\ fetchUserDataResume(pr, fl, fg, wo)

\* C23: on the user-profile view the four reads are joined; when the profile
\* read fails no profile is shown but the followers and following counts that
\* resolved are still applied; when it succeeds a failing count or list read
\* does not keep the results of the other reads from being applied; loading
\* is false afterwards in every case.
C23_PartialResultsApplied ==
  [][\A pr \in Outcomes, fl \in Outcomes, fg \in Outcomes, wo \in Outcomes :
       DataFetched(pr, fl, fg, wo)
         => /\ ~viewLoading'
            /\ viewProfile' = IF pr = "ok" THEN gwProfiles[targetUserId]
                                           ELSE viewProfile
            /\ fl = "ok" => followersCount' = getFollowersCount(targetUserId)
            /\ fg = "ok" => followingCount' = getFollowingCount(targetUserId)
            /\ (pr = "ok" /\ wo = "ok")
                 => viewWorkouts'
                      = {w \in getUserWorkouts(targetUserId) : w.is_public}
     ]_vars

\* C24: the items of a screen are the last successfully fetched collection:
\* on the user-profile view, when a like toggle succeeds and the list re-fetch
\* that follows it returns an error, the list displayed is left unchanged.
C24_FailedRefetchKeepsList ==
  [][\A o \in Outcomes \ {"ok"} :
       (likePc = "refetch" /\ viewRefetchResolve(o))
         => viewWorkouts' = viewWorkouts]_vars

\* C27: the followers count a user-profile view displays is never negative,
\* whatever the data fetch returned and whatever toggles followed.
C27_FollowersCountNotNegative == followersCount >= 0

\* The gateway answers the first query of a Following feed request whose
\* user follows nobody.
FollowsNobody(i, o) ==
  /\ i \in 1..Len(fetches)
  /\ fetches[i].stage = "follows"
  /\ o = "ok"
  /\ FollowingIds(fetches[i].uid) = {}
  /\ FetchResolve(i, o)

\* C30: no private workout is ever held in the items of the Home screen, the
\* Following screen or the user-profile view, after any sequence of fetches,
\* refreshes and like-triggered re-fetches; the Following feed holds only
\* workouts of owners the identity followed when the feed was requested, and
\* is set to the empty list, without an error, when it follows nobody.
C30_NoPrivateWorkoutShown ==
  [][/\ \A w \in items' \cup viewWorkouts' : w.is_public
     /\ screen = "Following"
          => \A w \in items' : <<user.id, w.user_id>> \in follows
     /\ \A i \in 1..MaxFetches, o \in Outcomes :
          FollowsNobody(i, o)
            => /\ items' = {}
               /\ FetchStep(fetches[i], o).ok
               /\ Len(fetches') < Len(fetches)]_vars

\* A feed or the profile lists a public workout while the table holds a
\* private one of the same owner.
C30_Witness ==
  /\ items \cup viewWorkouts # {}
  /\ \E w \in workouts : ~w.is_public
  /\ \A w \in items \cup viewWorkouts :
       \E p \in workouts : p.user_id = w.user_id /\ ~p.is_public

\* C28: whenever the Follow button is rendered as interactive for its target,
\* the state it displays is the result of a follow-existence check made for
\* the pair (viewer, target): the button becomes interactive only on the step
\* that applies the result of a check that succeeded, and shows that result.
C28_ShownStateFromCheck ==
  [][(~Rendered /\ Rendered')
       => /\ check.fn = "isFollowing"
          /\ check.stage = "returned"
          /\ check.error = NoError
          /\ btnIsFollowing' = check.value]_vars

\* The result the Search screen is to show for a term and a viewer.
SearchResult(term, viewer) ==
  IF Searchable(term) THEN searchUsers(term) \ {viewer} ELSE {}

\* C29: once no search request is in flight (and none is due), the results
\* are the current-user-excluded result of the search for the current term,
\* or empty when the term is blank: the answer to a search of an earlier term
\* that arrives last, or after the term was cleared, does not stay displayed.
C29_ResultsMatchCurrentTerm ==
  [][\A i \in 1..MaxSearches :
       (performSearchResume(i, "ok") /\ searches' = <<>> /\ ~debounce')
         => results' = SearchResult(searchTerm', user.id)]_vars

====
